---- MODULE Spec2Model ----
(***************************************************************************)
(* Invoice Automation Tool frontend: the view controller (file selection,  *)
(* generate click handler, result/error surface, health indicator) and the *)
(* API client (generateInvoice, checkHealth) as one state machine.         *)
(*                                                                         *)
(* The page is single-threaded: every action below is one event-loop task  *)
(* (a DOM event handler, or the continuation of a handler after the        *)
(* network call it awaited has settled).                                   *)
(***************************************************************************)
EXTENDS Naturals, Sequences, FiniteSets, TLC

\* ----------------------------------------------------------------- bounds
\* Longest timesheet list the model builds.
MaxTs == 2
\* Most files one drop / one picker selection delivers.
MaxDrop == 2
\* Most generation requests pending at once.
MaxInFlight == 2
\* Most health polls pending at once.
MaxPolls == 2

\* ----------------------------------------------------------------- values
\* JavaScript null in a file slot.
Null == "null"
\* The File objects a user can drop.
Files == {"a.pdf", "b.pdf"}

Undefined == [defined |-> FALSE]
Def(v) == [defined |-> TRUE, value |-> v]

BoundedSeq(S, n) == UNION {[1..k -> S] : k \in 0..n}
\* The FileList a drop or a picker change delivers (a drop of non-file data
\* delivers an empty one).
FileLists == BoundedSeq(Files, MaxDrop)

\* Array.prototype.join("\n")
RECURSIVE Join(_)
Join(list) ==
    IF Len(list) = 0 THEN ""
    ELSE IF Len(list) = 1 THEN list[1]
    ELSE list[1] \o "\n" \o Join(Tail(list))

\* Array.prototype.splice(idx, 1) with a 0-based idx: an idx at or past the
\* end removes nothing.
Splice(list, idx) ==
    IF idx + 1 > Len(list) THEN list
    ELSE SubSeq(list, 1, idx) \o SubSeq(list, idx + 2, Len(list))

\* ----------------------------------------------------------------- JSON
\* A JSON object is its list of <<key, number>> members, in source order.
JSONObject(members) == [kind |-> "object", members |-> members]

\* The engineer-configuration texts a user types, and what JSON.parse does
\* with each: a value, or a SyntaxError with the engine's message.
ConfigTexts == {"{ \"rate\": 1 }", "{rate: 1}"}

JSONParse(text) ==
    CASE text = "{}" -> [ok |-> TRUE, value |-> JSONObject(<<>>)]
      [] text = "{ \"rate\": 1 }" ->
            [ok |-> TRUE, value |-> JSONObject(<<<<"rate", 1>>>>)]
      [] text = "{rate: 1}" ->
            [ok |-> FALSE,
             message |-> "Expected property name or '}' in JSON at position 1"]
      [] OTHER -> [ok |-> FALSE, message |-> "Unexpected end of JSON input"]

RECURSIVE StringifyMembers(_)
StringifyMembers(members) ==
    IF Len(members) = 0 THEN ""
    ELSE "\"" \o members[1][1] \o "\":" \o ToString(members[1][2])
         \o (IF Len(members) = 1 THEN "" ELSE ",")
         \o StringifyMembers(Tail(members))

\* JSON.stringify of a parsed configuration: no insignificant whitespace.
JSONStringify(value) == "{" \o StringifyMembers(value.members) \o "}"

\* Boolean.prototype.toString
BoolToString(b) == IF b THEN "true" ELSE "false"

\* ----------------------------------------------------------------- state
VARIABLES
    poPdf,            \* selected PO file or Null
    timesheetFiles,   \* ordered list of selected timesheet files
    templateFile,     \* selected template file or Null
    lastResult,       \* last stored generation result
    poFileList,       \* rendered items of #po-file-list
    tsFileList,       \* rendered items of #ts-file-list
    tplFileList,      \* rendered items of #tpl-file-list
    btnDisabled,      \* generateBtn.disabled
    statusHidden,     \* #status-section has class hidden
    statusText,       \* #status-text
    resultsHidden,    \* #results-section has class hidden
    errorHidden,      \* #error-section has class hidden
    errorText,        \* #error-text
    grandTotal,       \* #grand-total
    healthLabel,      \* #health-label
    healthDot,        \* #health-dot class
    inflight,         \* pending generateInvoice calls, oldest first
    healthPending     \* pending checkHealth calls

selection == <<poPdf, timesheetFiles, templateFile>>
fileLists == <<poFileList, tsFileList, tplFileList>>
surface == <<statusHidden, statusText, resultsHidden, errorHidden, errorText,
             grandTotal>>
health == <<healthLabel, healthDot, healthPending>>
vars == <<poPdf, timesheetFiles, templateFile, lastResult, poFileList,
          tsFileList, tplFileList, btnDisabled, statusHidden, statusText,
          resultsHidden, errorHidden, errorText, grandTotal, healthLabel,
          healthDot, inflight, healthPending>>

\* The stored result before any response.
NullResult == [kind |-> "null"]

\* ------------------------------------------------------- page as loaded
\* The markup the script attaches to: the submit control starts disabled,
\* the three sections start hidden, the health indicator starts unset.
MarkupBtnDisabled == TRUE
MarkupSectionHidden == TRUE
MarkupHealthLabel == "Checking..."
MarkupHealthDot == "health-dot"

Init ==
    /\ poPdf = Null
    /\ timesheetFiles = <<>>
    /\ templateFile = Null
    /\ lastResult = NullResult
    /\ poFileList = <<>>
    /\ tsFileList = <<>>
    /\ tplFileList = <<>>
    /\ btnDisabled = MarkupBtnDisabled
    /\ statusHidden = MarkupSectionHidden
    /\ statusText = ""
    /\ resultsHidden = MarkupSectionHidden
    /\ errorHidden = MarkupSectionHidden
    /\ errorText = ""
    /\ grandTotal = ""
    /\ healthLabel = MarkupHealthLabel
    /\ healthDot = MarkupHealthDot
    /\ inflight = <<>>
    \* checkBackendHealth() is called once while the script loads.
    /\ healthPending = 1

\* ------------------------------------------------------- file selection
\* renderFileList: one item per truthy entry, its remove button bound to
\* the entry's 0-based index in the array that was rendered.
RenderFileList(files) ==
    LET idxs == {i \in 1..Len(files) : files[i] # Null}
        RECURSIVE Items(_)
        Items(i) ==
            IF i > Len(files) THEN <<>>
            ELSE (IF i \in idxs
                  THEN <<[name |-> files[i], index |-> i - 1]>>
                  ELSE <<>>) \o Items(i + 1)
    IN Items(1)

\* updateGenerateBtn: the value it assigns to generateBtn.disabled.
UpdateGenerateBtn(po, ts, tpl) ==
    LET ready == po # Null /\ Len(ts) > 0 /\ tpl # Null
    IN ~ready

\* PO dropzone onFiles
PoFiles(files) ==
    /\ IF Len(files) > 0
       THEN /\ poPdf' = files[1]
            /\ poFileList' = RenderFileList(<<files[1]>>)
            /\ btnDisabled' = UpdateGenerateBtn(files[1], timesheetFiles, templateFile)
       ELSE UNCHANGED <<poPdf, poFileList, btnDisabled>>
    /\ UNCHANGED <<timesheetFiles, templateFile, lastResult, tsFileList,
                   tplFileList, surface, health, inflight>>

\* Click on the remove button of the rendered PO item.
PoRemove(k) ==
    /\ k \in 1..Len(poFileList)
    /\ poPdf' = Null
    /\ poFileList' = RenderFileList(<<>>)
    /\ btnDisabled' = UpdateGenerateBtn(Null, timesheetFiles, templateFile)
    /\ UNCHANGED <<timesheetFiles, templateFile, lastResult, tsFileList,
                   tplFileList, surface, health, inflight>>

\* Template dropzone onFiles
TplFiles(files) ==
    /\ IF Len(files) > 0
       THEN /\ templateFile' = files[1]
            /\ tplFileList' = RenderFileList(<<files[1]>>)
            /\ btnDisabled' = UpdateGenerateBtn(poPdf, timesheetFiles, files[1])
       ELSE UNCHANGED <<templateFile, tplFileList, btnDisabled>>
    /\ UNCHANGED <<poPdf, timesheetFiles, lastResult, poFileList,
                   tsFileList, surface, health, inflight>>

\* Click on the remove button of the rendered template item.
TplRemove(k) ==
    /\ k \in 1..Len(tplFileList)
    /\ templateFile' = Null
    /\ tplFileList' = RenderFileList(<<>>)
    /\ btnDisabled' = UpdateGenerateBtn(poPdf, timesheetFiles, Null)
    /\ UNCHANGED <<poPdf, timesheetFiles, lastResult, poFileList,
                   tsFileList, surface, health, inflight>>

\* Variant: a file already in the list is not pushed again.
TsFilesDeduplicates(files) ==
    /\ Len(timesheetFiles) + Len(files) <= MaxTs
    /\ timesheetFiles' =
         timesheetFiles \o
         SelectSeq(files, LAMBDA f :
                     \A j \in 1..Len(timesheetFiles) : timesheetFiles[j] # f)
    /\ tsFileList' = RenderFileList(timesheetFiles')
    /\ btnDisabled' = UpdateGenerateBtn(poPdf, timesheetFiles', templateFile)
    /\ UNCHANGED <<poPdf, templateFile, lastResult, poFileList, tplFileList,
                   surface, health, inflight>>

\* Timesheet dropzone onFiles: push every file, render, update the button.
TsFiles(files) ==
    /\ Len(timesheetFiles) + Len(files) <= MaxTs
    /\ timesheetFiles' = timesheetFiles \o files
    /\ tsFileList' = RenderFileList(timesheetFiles')
    /\ btnDisabled' = UpdateGenerateBtn(poPdf, timesheetFiles', templateFile)
    /\ UNCHANGED <<poPdf, templateFile, lastResult, poFileList, tplFileList,
                   surface, health, inflight>>

\* Click on the remove button of the timesheet item rendered at position k.
\* The callback splices the list, then evaluates `arguments.callee` as the
\* third argument of the renderFileList call. The callback and the function
\* around it are arrow functions at the top level of a script, where no
\* `arguments` binding exists: the evaluation throws a ReferenceError before
\* renderFileList is entered, so neither the re-render nor updateGenerateBtn
\* runs and the event listener ends with the list spliced only.
TsRemove(k) ==
    /\ k \in 1..Len(tsFileList)
    /\ timesheetFiles' = Splice(timesheetFiles, tsFileList[k].index)
    /\ UNCHANGED <<poPdf, templateFile, lastResult, fileLists, btnDisabled,
                   surface, health, inflight>>

\* --------------------------------------------------------- API client
\* Variant: only the first timesheet is appended.
FormDataFirstTimesheetOnly(po, ts, tpl, engineerConfig, strict) ==
    <<<<"po_pdf", po>>>>
    \o [i \in 1..(IF Len(ts) > 0 THEN 1 ELSE 0) |-> <<"timesheets", ts[i]>>]
    \o <<<<"template", tpl>>,
         <<"engineer_config", JSONStringify(engineerConfig)>>,
         <<"strict", BoolToString(strict)>>>>

\* generateInvoice up to its fetch call: the FormData it builds, as the list
\* of <<field name, value>> entries in append order.
GenerateInvoiceFormData(po, ts, tpl, engineerConfig, strict) ==
    <<<<"po_pdf", po>>>>
    \o [i \in 1..Len(ts) |-> <<"timesheets", ts[i]>>]
    \o <<<<"template", tpl>>,
         <<"engineer_config", JSONStringify(engineerConfig)>>,
         <<"strict", BoolToString(strict)>>>>

\* What the network hands back to a fetch: a rejection (network exception)
\* or an HTTP response with a status and a body. A body is not JSON, the
\* JSON value null, or a JSON object of which the client reads the members
\* success, errors, detail and summary.
Reject(message) == [kind |-> "reject", message |-> message]
Http(status, body) == [kind |-> "http", status |-> status, body |-> body]
NotJson == [kind |-> "notjson"]
JsonNull == [kind |-> "null"]
Body(success, errors, detail, summary) ==
    [kind |-> "object", success |-> success, errors |-> errors,
     detail |-> detail, summary |-> summary]

\* Response.ok
ResponseOk(resp) == resp.status >= 200 /\ resp.status <= 299

\* JavaScript truthiness of an optional string / optional boolean member.
TruthyString(m) == m.defined /\ m.value # ""
TruthyBool(m) == m.defined /\ m.value

\* Variant: only the first error of the list is taken.
JoinedErrorsFirstOnly(errors) ==
    IF ~errors.defined THEN Undefined
    ELSE IF Len(errors.value) = 0 THEN Def("")
    ELSE Def(errors.value[1])

\* errors?.join("\n"): undefined when the member is absent.
JoinedErrors(errors) ==
    IF errors.defined THEN Def(Join(errors.value)) ELSE Undefined

\* Variant: the errors list is preferred over the detail.
ErrorDetailErrorsFirst(resp) ==
    LET generic == "HTTP " \o ToString(resp.status)
        err == resp.body
    IN IF err.kind # "object" THEN generic
       ELSE IF TruthyString(JoinedErrors(err.errors))
            THEN JoinedErrors(err.errors).value
       ELSE IF TruthyString(err.detail) THEN err.detail.value
       ELSE generic

\* generateInvoice, lines 31-37: the message of the Error thrown for a
\* non-ok response. response.json() rejects for a non-JSON body and
\* err.detail throws for a null body; both are swallowed by the catch.
ErrorDetail(resp) ==
    LET generic == "HTTP " \o ToString(resp.status)
        err == resp.body
    IN IF err.kind # "object" THEN generic
       ELSE IF TruthyString(err.detail) THEN err.detail.value
       ELSE IF TruthyString(JoinedErrors(err.errors))
            THEN JoinedErrors(err.errors).value
       ELSE generic

\* generateInvoice after its fetch settled: the value it returns or the
\* message of the error it throws.
GenerateInvoice(resp) ==
    IF resp.kind = "reject" THEN [threw |-> TRUE, message |-> resp.message]
    ELSE IF ~ResponseOk(resp) THEN [threw |-> TRUE, message |-> ErrorDetail(resp)]
    ELSE IF resp.body.kind = "notjson"
         THEN [threw |-> TRUE,
               message |-> "Unexpected token '<', \"<html>\" is not valid JSON"]
    ELSE [threw |-> FALSE, result |-> resp.body]

\* Variant: any resolved fetch counts as healthy.
CheckHealthResolved(resp) == resp.kind # "reject"

\* checkHealth after its fetch settled.
CheckHealth(resp) ==
    IF resp.kind = "reject" THEN FALSE ELSE ResponseOk(resp)

\* ------------------------------------------------------ result surface
\* Variant: showError leaves the results section as it is.
ShowErrorKeepsResults(msg) ==
    [errorHidden |-> FALSE, resultsHidden |-> resultsHidden, errorText |-> msg]

\* showError: the three assignments it makes.
ShowError(msg) ==
    [errorHidden |-> FALSE, resultsHidden |-> TRUE, errorText |-> msg]

\* A non-negative amount: whole units and ten-thousandths of a unit.
Amount(whole, frac) == [whole |-> whole, frac |-> frac]

RECURSIVE Pow10(_)
Pow10(n) == IF n = 0 THEN 1 ELSE 10 * Pow10(n - 1)

\* The decimal digits of q, zero-padded on the left to width digits.
RECURSIVE Digits(_, _)
Digits(q, width) ==
    IF width = 0 THEN "" ELSE Digits(q \div 10, width - 1) \o ToString(q % 10)

\* The en-US grouping of an integer: groups of three separated by commas.
RECURSIVE Grouped(_)
Grouped(n) ==
    IF n < 1000 THEN ToString(n)
    ELSE Grouped(n \div 1000) \o "," \o Digits(n % 1000, 3)

\* Trailing zeros of a fraction are dropped down to the minimum digits.
RECURSIVE TrimFraction(_, _, _)
TrimFraction(q, digits, minimum) ==
    IF digits > minimum /\ q % 10 = 0
    THEN TrimFraction(q \div 10, digits - 1, minimum)
    ELSE [q |-> q, digits |-> digits]

\* amount.toLocaleString("en-US", { minimumFractionDigits }): the maximum
\* of fraction digits is not given and defaults to the larger of 3 and the
\* minimum; the amount is rounded to that many digits (half away from
\* zero), grouped, and trailing zeros beyond the minimum are dropped.
ToLocaleString(amount, minimumFractionDigits) ==
    LET maximumFractionDigits ==
            IF minimumFractionDigits > 3 THEN minimumFractionDigits ELSE 3
        unit == Pow10(4 - maximumFractionDigits)
        rounded == (amount.frac + unit \div 2) \div unit
        carry == rounded \div Pow10(maximumFractionDigits)
        t == TrimFraction(rounded % Pow10(maximumFractionDigits),
                          maximumFractionDigits, minimumFractionDigits)
    IN Grouped(amount.whole + carry)
       \o (IF t.digits = 0 THEN "" ELSE "." \o Digits(t.q, t.digits))

\* showResults: shows the results section and hides the banner, then fills
\* the summary fields in order. Reading result.summary.grand_total_usd is a
\* TypeError when summary is absent (nothing written); total_hours.toFixed
\* is a TypeError when total_hours is absent (#grand-total already written).
ShowResults(result) ==
    LET summary == result.summary
    IN [errorHidden |-> TRUE, resultsHidden |-> FALSE,
        grandTotal |->
            IF summary.defined
            THEN Def("$" \o ToLocaleString(summary.value.grand_total_usd, 2))
            ELSE Undefined,
        threw |-> ~summary.defined \/ ~summary.value.total_hours.defined,
        message |->
            IF ~summary.defined
            THEN "Cannot read properties of undefined (reading 'grand_total_usd')"
            ELSE "Cannot read properties of undefined (reading 'toFixed')"]

\* Variant: the result is stored only after the success flag was checked.
HandleOutcomeStoreOnSuccess(resp, prevResult, prevErrorText) ==
    LET out == GenerateInvoice(resp)
        failed(m) == ShowError("Request failed: " \o m)
    IN IF out.threw
       THEN [lastResult |-> prevResult, total |-> Undefined,
             ui |-> failed(out.message)]
       ELSE IF out.result.kind = "null"
       THEN [lastResult |-> prevResult, total |-> Undefined,
             ui |-> failed("Cannot read properties of null (reading 'success')")]
       ELSE IF TruthyBool(out.result.success)
       THEN LET shown == ShowResults(out.result)
            IN [lastResult |-> out.result, total |-> shown.grandTotal,
                ui |-> IF shown.threw THEN failed(shown.message)
                       ELSE [errorHidden |-> shown.errorHidden,
                             resultsHidden |-> shown.resultsHidden,
                             errorText |-> prevErrorText]]
       ELSE LET joined == JoinedErrors(out.result.errors)
            IN [lastResult |-> prevResult, total |-> Undefined,
                ui |-> ShowError(IF TruthyString(joined) THEN joined.value
                                 ELSE "Unknown error")]

\* The try/catch of the click handler (lines 152-163) for a settled fetch:
\* the stored result and the surface it leaves.
HandleOutcome(resp, prevResult, prevErrorText) ==
    LET out == GenerateInvoice(resp)
        failed(m) == ShowError("Request failed: " \o m)
    IN IF out.threw
       THEN [lastResult |-> prevResult, total |-> Undefined,
             ui |-> failed(out.message)]
       ELSE IF out.result.kind = "null"
       THEN [lastResult |-> NullResult, total |-> Undefined,
             ui |-> failed("Cannot read properties of null (reading 'success')")]
       ELSE IF TruthyBool(out.result.success)
       THEN LET shown == ShowResults(out.result)
            IN [lastResult |-> out.result, total |-> shown.grandTotal,
                ui |-> IF shown.threw THEN failed(shown.message)
                       ELSE [errorHidden |-> shown.errorHidden,
                             resultsHidden |-> shown.resultsHidden,
                             errorText |-> prevErrorText]]
       ELSE LET joined == JoinedErrors(out.result.errors)
            IN [lastResult |-> out.result, total |-> Undefined,
                ui |-> ShowError(IF TruthyString(joined) THEN joined.value
                                 ELSE "Unknown error")]

\* ------------------------------------------------------------ generate
\* A call of generateInvoice whose fetch has not settled: the FormData it
\* sent, and whether the fetch of a call made after it has settled already
\* (the order of arrival; no handler reads it).
Pending(form) == [form |-> form, overtaken |-> FALSE]

\* The pending calls once the fetch of the i-th has settled: fetches settle
\* in any order, and the calls made before the i-th are now overtaken.
Settle(pending, i) ==
    [k \in 1..Len(pending) - 1 |->
       IF k < i THEN [pending[k] EXCEPT !.overtaken = TRUE]
       ELSE pending[k + 1]]

\* Variant: the catch of the configuration parse does not return, so the
\* request is dispatched after the banner was shown.
GenerateClickNoReturn(text, strict) ==
    /\ ~btnDisabled
    /\ Len(inflight) < MaxInFlight
    /\ statusHidden' = FALSE
    /\ resultsHidden' = TRUE
    /\ errorHidden' = TRUE
    /\ errorText' = (IF JSONParse(text).ok THEN errorText
                     ELSE "Invalid JSON config: " \o JSONParse(text).message)
    /\ statusText' = "Processing... This may take 10-30 seconds."
    /\ btnDisabled' = TRUE
    /\ inflight' = Append(inflight,
         Pending(GenerateInvoiceFormData(poPdf, timesheetFiles, templateFile,
                     IF JSONParse(text).ok THEN JSONParse(text).value
                     ELSE JSONObject(<<>>), strict)))
    /\ UNCHANGED <<selection, lastResult, fileLists, grandTotal, health>>

\* Click on the submit control. A disabled button dispatches no click.
GenerateClick(text, strict) ==
    /\ ~btnDisabled
    /\ LET parsed == JSONParse(text)
       IN IF ~parsed.ok
          THEN LET ui == ShowError("Invalid JSON config: " \o parsed.message)
               IN /\ errorHidden' = ui.errorHidden
                  /\ resultsHidden' = ui.resultsHidden
                  /\ errorText' = ui.errorText
                  /\ UNCHANGED <<statusHidden, statusText, btnDisabled, inflight>>
          ELSE /\ Len(inflight) < MaxInFlight
               /\ statusHidden' = FALSE
               /\ resultsHidden' = TRUE
               /\ errorHidden' = TRUE
               /\ statusText' = "Processing... This may take 10-30 seconds."
               /\ btnDisabled' = TRUE
               /\ inflight' = Append(inflight,
                    Pending(GenerateInvoiceFormData(poPdf, timesheetFiles,
                                templateFile, parsed.value, strict)))
               /\ UNCHANGED errorText
    /\ UNCHANGED <<selection, lastResult, fileLists, grandTotal, health>>

\* Variant: the handler clears the selection after a rendered success.
GenerateSettledClears(i, resp) ==
    /\ i \in 1..Len(inflight)
    /\ inflight' = Settle(inflight, i)
    /\ LET h == HandleOutcome(resp, lastResult, errorText)
       IN /\ lastResult' = h.lastResult
          /\ errorHidden' = h.ui.errorHidden
          /\ resultsHidden' = h.ui.resultsHidden
          /\ errorText' = h.ui.errorText
          /\ grandTotal' = (IF h.total.defined THEN h.total.value
                            ELSE grandTotal)
          /\ timesheetFiles' = (IF h.ui.resultsHidden THEN timesheetFiles ELSE <<>>)
    /\ statusHidden' = TRUE
    /\ btnDisabled' = UpdateGenerateBtn(poPdf, timesheetFiles', templateFile)
    /\ UNCHANGED <<poPdf, templateFile, fileLists, statusText, health>>

\* Variant: the status is hidden and the button recomputed at the end of
\* the try block and of the catch block's own statements, not in a finally:
\* an exception thrown while rendering skips them.
GenerateSettledNoFinally(i, resp) ==
    /\ i \in 1..Len(inflight)
    /\ inflight' = Settle(inflight, i)
    /\ UNCHANGED <<selection, fileLists, statusText, health>>
    /\ LET h == HandleOutcome(resp, lastResult, errorText)
           out == GenerateInvoice(resp)
           renderThrew == /\ ~out.threw
                          /\ out.result.kind = "object"
                          /\ TruthyBool(out.result.success)
                          /\ ShowResults(out.result).threw
       IN /\ lastResult' = h.lastResult
          /\ errorHidden' = h.ui.errorHidden
          /\ resultsHidden' = h.ui.resultsHidden
          /\ errorText' = h.ui.errorText
          /\ grandTotal' = (IF h.total.defined THEN h.total.value
                            ELSE grandTotal)
          /\ statusHidden' = (IF renderThrew THEN statusHidden ELSE TRUE)
          /\ btnDisabled' =
               (IF renderThrew THEN btnDisabled
                ELSE UpdateGenerateBtn(poPdf, timesheetFiles, templateFile))

\* The fetch of the i-th pending request settles with resp and the click
\* handler runs to its end: try, catch, finally.
GenerateSettled(i, resp) ==
    /\ i \in 1..Len(inflight)
    /\ inflight' = Settle(inflight, i)
    /\ UNCHANGED <<selection, fileLists, statusText, health>>
    /\ LET h == HandleOutcome(resp, lastResult, errorText)
       IN /\ lastResult' = h.lastResult
          /\ errorHidden' = h.ui.errorHidden
          /\ resultsHidden' = h.ui.resultsHidden
          /\ errorText' = h.ui.errorText
          /\ grandTotal' = (IF h.total.defined THEN h.total.value
                            ELSE grandTotal)
    /\ statusHidden' = TRUE
    /\ btnDisabled' = UpdateGenerateBtn(poPdf, timesheetFiles, templateFile)

\* -------------------------------------------------------------- health
\* The 30 s interval timer fires: checkBackendHealth starts a fetch.
HealthPoll ==
    /\ healthPending < MaxPolls
    /\ healthPending' = healthPending + 1
    /\ UNCHANGED <<selection, lastResult, fileLists, btnDisabled, surface,
                   healthLabel, healthDot, inflight>>

\* Variant: an unreachable backend is also reported on the error banner.
HealthSettledShowsBanner(resp) ==
    /\ healthPending > 0
    /\ healthPending' = healthPending - 1
    /\ LET ok == CheckHealth(resp)
       IN /\ healthDot' = "health-dot " \o (IF ok THEN "healthy" ELSE "unhealthy")
          /\ healthLabel' = (IF ok THEN "API Connected" ELSE "API Offline")
          /\ errorHidden' = (IF ok THEN errorHidden ELSE FALSE)
          /\ errorText' = (IF ok THEN errorText ELSE "API Offline")
    /\ UNCHANGED <<selection, lastResult, fileLists, btnDisabled, statusHidden,
                   statusText, resultsHidden, grandTotal, inflight>>

\* A pending health fetch settles with resp: checkBackendHealth finishes.
HealthSettled(resp) ==
    /\ healthPending > 0
    /\ healthPending' = healthPending - 1
    /\ LET ok == CheckHealth(resp)
       IN /\ healthDot' = "health-dot " \o (IF ok THEN "healthy" ELSE "unhealthy")
          /\ healthLabel' = (IF ok THEN "API Connected" ELSE "API Offline")
    /\ UNCHANGED <<selection, lastResult, fileLists, btnDisabled, surface,
                   inflight>>

\* ------------------------------------------------------- the network
\* A summary with every field showResults reads.
Summary(amount) == Def([grand_total_usd |-> amount, total_hours |-> Def(8)])
GoodSummary == Summary(Amount(1, 0))
NoErrors == Undefined
NoDetail == Undefined
NoSummary == Undefined

\* One response per outcome of a generation request: network exception,
\* success, logical failure, HTTP error.
CoreResponses ==
    { Reject("Failed to fetch"),
      Http(200, Body(Def(TRUE), NoErrors, NoDetail, GoodSummary)),
      Http(200, Body(Def(FALSE), Def(<<"A", "B">>), NoDetail, NoSummary)),
      Http(500, NotJson) }

\* The response shapes the client distinguishes.
GenResponses ==
    CoreResponses \cup
    { Http(200, NotJson),
      Http(200, JsonNull),
      Http(200, Body(Def(TRUE), NoErrors, NoDetail, NoSummary)),
      Http(200, Body(Def(FALSE), NoErrors, NoDetail, NoSummary)),
      Http(200, Body(Def(FALSE), Def(<<>>), NoDetail, NoSummary)),
      Http(200, Body(Def(FALSE), Def(<<"">>), NoDetail, NoSummary)),
      Http(500, JsonNull),
      Http(422, Body(Undefined, NoErrors, Def("D"), NoSummary)),
      Http(422, Body(Undefined, Def(<<"A", "B">>), Def("D"), NoSummary)),
      Http(422, Body(Undefined, Def(<<"A", "B">>), Def(""), NoSummary)),
      Http(422, Body(Undefined, Def(<<"A", "B">>), NoDetail, NoSummary)),
      Http(422, Body(Undefined, Def(<<>>), NoDetail, NoSummary)),
      Http(422, Body(Undefined, Def(<<"">>), NoDetail, NoSummary)) }

HealthResponses ==
    { Reject("Failed to fetch"), Http(200, NotJson), Http(503, NotJson) }

\* ------------------------------------------------------------- steps
\* One event-loop task of the page, with the user's and the network's
\* inputs drawn from the given sets.
UserStep(poLists, tsLists, tplLists, texts, stricts) ==
    \/ \E files \in poLists : PoFiles(files)
    \/ \E k \in 1..1 : PoRemove(k)
    \/ \E files \in tsLists : TsFiles(files)
    \/ \E k \in 1..MaxTs : TsRemove(k)
    \/ \E files \in tplLists : TplFiles(files)
    \/ \E k \in 1..1 : TplRemove(k)
    \/ \E text \in texts, strict \in stricts : GenerateClick(text, strict)

\* The user adds files and clicks, and removes nothing.
AddStep(poLists, tsLists, tplLists, texts, stricts) ==
    \/ \E files \in poLists : PoFiles(files)
    \/ \E files \in tsLists : TsFiles(files)
    \/ \E files \in tplLists : TplFiles(files)
    \/ \E text \in texts, strict \in stricts : GenerateClick(text, strict)

GenerateStep(responses) ==
    \E i \in 1..MaxInFlight, resp \in responses : GenerateSettled(i, resp)

HealthStep(responses) ==
    \/ HealthPoll
    \/ \E resp \in responses : HealthSettled(resp)

\* A drop of exactly one file.
OneDrop == {<<"a.pdf">>}

\* The page with every handler and the health timer; one file per drop,
\* one response per outcome.
Next ==
    \/ UserStep(OneDrop, OneDrop, OneDrop, ConfigTexts, {FALSE})
    \/ GenerateStep(CoreResponses)
    \/ HealthStep(HealthResponses)

Spec == Init /\ [][Next]_vars

\* The page with every response shape the client distinguishes; files are
\* added and replaced, not removed.
NextResponses ==
    \/ AddStep(OneDrop, OneDrop, OneDrop, ConfigTexts, {FALSE})
    \/ GenerateStep(GenResponses)

SpecResponses == Init /\ [][NextResponses]_vars

\* The page with every timesheet drop (no file, one file, several files,
\* two different files) and both strict settings.
NextPayload ==
    \/ UserStep(OneDrop, FileLists, OneDrop, ConfigTexts, BOOLEAN)
    \/ GenerateStep({Reject("Failed to fetch")})

SpecPayload == Init /\ [][NextPayload]_vars

\* The page with successful responses over a range of grand totals: no
\* fraction, one, two, three and four fraction digits, a carry into the
\* integer part, one and two group separators; and a summary that lacks
\* total_hours. No amount lies half-way between two roundings. Files are
\* added and replaced, not removed.
TotalAmounts ==
    { Amount(0, 0), Amount(12, 3400), Amount(1234, 5000), Amount(1234, 5670),
      Amount(1234, 5678), Amount(999, 9996), Amount(0, 10),
      Amount(1234567, 0) }

TotalResponses ==
    { Http(200, Body(Def(TRUE), NoErrors, NoDetail, Summary(a))) :
        a \in TotalAmounts }
    \cup
    { Http(200, Body(Def(TRUE), NoErrors, NoDetail,
                     Def([grand_total_usd |-> Amount(1000, 100),
                          total_hours |-> Undefined]))) }

NextTotals ==
    \/ AddStep(OneDrop, OneDrop, OneDrop, ConfigTexts, {FALSE})
    \/ GenerateStep(TotalResponses)

SpecTotals == Init /\ [][NextTotals]_vars

\* The page where the fetch of every pending request completes or fails:
\* one response per outcome, and success responses whose rendering throws
\* (before and after the grand total is written).
LifeResponses ==
    CoreResponses \cup
    { Http(200, Body(Def(TRUE), NoErrors, NoDetail, NoSummary)),
      Http(200, Body(Def(TRUE), NoErrors, NoDetail,
                     Def([grand_total_usd |-> Amount(1, 0),
                          total_hours |-> Undefined]))) }

NextLife ==
    \/ UserStep(OneDrop, OneDrop, OneDrop, ConfigTexts, {FALSE})
    \/ GenerateStep(LifeResponses)

SpecLife ==
    Init /\ [][NextLife]_vars /\ WF_vars(GenerateStep(LifeResponses))

\* The page as long as no request is dispatched, with every drop on every
\* zone: no file, one file, several files, the same file twice, two
\* different files; a click finds the configuration text invalid.
NextSlots ==
    UserStep(FileLists, FileLists, FileLists, {"{rate: 1}"}, {FALSE})

SpecSlots == Init /\ [][NextSlots]_vars

\* ================================================================ claims
\* FormData.getAll(name): the values appended under a field, in order.
RECURSIVE FormGetAll(_, _)
FormGetAll(form, name) ==
    IF Len(form) = 0 THEN <<>>
    ELSE (IF form[1][1] = name THEN <<form[1][2]>> ELSE <<>>)
         \o FormGetAll(Tail(form), name)

Ready == poPdf # Null /\ templateFile # Null /\ Len(timesheetFiles) > 0

\* C1: whenever no generation request is in flight, the submit control is
\* enabled if and only if a PO file, a template file and at least one
\* timesheet file are selected (every mutation recomputes the enablement).
C1_SubmitEnabledIffReady ==
    inflight = <<>> => (~btnDisabled <=> Ready)

\* C2: clicking the remove button of the timesheet item rendered at
\* position k removes exactly that file, keeps the others in order and
\* re-renders the remaining files, each bound to its current index.
C2_RemoveRerendersCurrentIndexes ==
    [][\A k \in 1..MaxTs + 1 :
          TsRemove(k) =>
            /\ timesheetFiles' = Splice(timesheetFiles, k - 1)
            /\ Len(tsFileList') = Len(tsFileList) - 1
            /\ Len(tsFileList') = Len(timesheetFiles')
            /\ \A j \in 1..Len(tsFileList') :
                 tsFileList'[j] = [name |-> timesheetFiles'[j], index |-> j - 1]]_vars

\* C3: at every moment at most one generation request is in flight.
C3_AtMostOneInFlight == Len(inflight) <= 1

\* C4: a generate click with configuration text that is not well-formed
\* JSON issues no request, shows the error banner naming the JSON problem
\* with the results hidden, and leaves the selection, the stored result,
\* the busy indicator and the submit control's enablement unchanged.
C4_InvalidConfigNoRequest ==
    [][\A text \in ConfigTexts, strict \in BOOLEAN :
          (GenerateClick(text, strict) /\ text = "{rate: 1}") =>
            /\ inflight' = inflight
            /\ errorHidden' = FALSE
            /\ resultsHidden' = TRUE
            /\ errorText' = "Invalid JSON config: Expected property name or '}' in JSON at position 1"
            /\ UNCHANGED <<selection, lastResult, statusHidden, btnDisabled>>]_vars

\* C4 witness: the banner of a rejected configuration is up while the
\* submit control is still enabled and nothing is pending.
C4_Witness ==
    /\ ~errorHidden
    /\ resultsHidden
    /\ errorText = "Invalid JSON config: Expected property name or '}' in JSON at position 1"
    /\ ~btnDisabled
    /\ inflight = <<>>

\* C5: every generation request carries the selection as it was at the
\* click: the PO file under po_pdf, the timesheets in list order under
\* timesheets, the template under template, the parsed configuration
\* re-serialized under engineer_config and strict as "true" or "false";
\* no later step changes the payload of a pending request.
C5_PayloadIsSelectionAtClick ==
    [][/\ \A text \in ConfigTexts, strict \in BOOLEAN :
            (GenerateClick(text, strict) /\ text = "{ \"rate\": 1 }") =>
              /\ Len(inflight') = Len(inflight) + 1
              /\ LET form == inflight'[Len(inflight')].form
                 IN /\ FormGetAll(form, "po_pdf") = <<poPdf>>
                    /\ FormGetAll(form, "timesheets") = timesheetFiles
                    /\ FormGetAll(form, "template") = <<templateFile>>
                    /\ FormGetAll(form, "engineer_config") = <<"{\"rate\":1}">>
                    /\ FormGetAll(form, "strict")
                         = <<IF strict THEN "true" ELSE "false">>
                    /\ Len(form) = 4 + Len(timesheetFiles)
       /\ \/ inflight' = inflight
          \/ /\ Len(inflight') = Len(inflight) + 1
             /\ SubSeq(inflight', 1, Len(inflight)) = inflight
          \/ \E i \in 1..Len(inflight) : inflight' = Settle(inflight, i)]_vars

\* C5 witness: a request carrying two different timesheets is pending and
\* the list has been changed since the click.
C5_Witness ==
    /\ Len(inflight) >= 1
    /\ FormGetAll(inflight[1].form, "timesheets") = <<"b.pdf", "a.pdf">>
    /\ FormGetAll(inflight[1].form, "engineer_config") = <<"{\"rate\":1}">>
    /\ timesheetFiles = <<"a.pdf">>

\* The response classes the claims speak of.
IsHttp(resp) == resp.kind = "http"
IsHttpOk(resp) == IsHttp(resp) /\ resp.status >= 200 /\ resp.status <= 299
IsHttpError(resp) == IsHttp(resp) /\ ~IsHttpOk(resp)
IsJsonObject(resp) == IsHttp(resp) /\ resp.body.kind = "object"
IsLogicalFailure(resp) ==
    IsHttpOk(resp) /\ IsJsonObject(resp) /\ resp.body.success = Def(FALSE)

\* The banner text a logically failed response is said to give.
JoinedOrUnknown(resp) ==
    IF ~resp.body.errors.defined \/ resp.body.errors.value = <<>>
    THEN "Unknown error"
    ELSE Join(resp.body.errors.value)

\* The banner text with the empty joined text treated like no errors.
NonEmptyJoinedOrUnknown(resp) ==
    IF ~resp.body.errors.defined \/ Join(resp.body.errors.value) = ""
    THEN "Unknown error"
    ELSE Join(resp.body.errors.value)

BannerShown(msg) ==
    /\ errorHidden' = FALSE
    /\ resultsHidden' = TRUE
    /\ errorText' = msg

\* "step => effect", with the effect looked at first.
Gives(step, effect) == effect \/ ~step

\* C6 as stated: a response with ok status and success flag false shows the
\* banner, hides the results, and the banner text is the error strings
\* joined by newline, or "Unknown error" when the list is absent or empty.
C6_BannerIsJoinedErrors ==
    [][\A i \in 1..MaxInFlight, resp \in GenResponses :
          IsLogicalFailure(resp) =>
            Gives(GenerateSettled(i, resp),
                  BannerShown(JoinedOrUnknown(resp)))]_vars

\* C6 amended: as C6, with "Unknown error" also shown when the joined text
\* is empty (a list holding only empty strings).
C6_BannerIsJoinedErrorsOrUnknown ==
    [][\A i \in 1..MaxInFlight, resp \in GenResponses :
          IsLogicalFailure(resp) =>
            Gives(GenerateSettled(i, resp),
                  BannerShown(NonEmptyJoinedOrUnknown(resp)))]_vars

\* C6 witness: the banner shows the two errors of a logically failed
\* response, newline-joined.
C6_Witness ==
    /\ ~errorHidden
    /\ resultsHidden
    /\ errorText = "A\nB"

\* The banner of a failed request.
FailureShown(msg) ==
    /\ errorHidden' = FALSE
    /\ resultsHidden' = TRUE
    /\ errorText' = "Request failed: " \o msg
    /\ lastResult' = lastResult

\* The message of a non-ok response as the claim orders it.
DetailElseErrorsElseStatus(resp) ==
    IF IsJsonObject(resp) /\ resp.body.detail.defined
    THEN resp.body.detail.value
    ELSE IF /\ IsJsonObject(resp)
            /\ resp.body.errors.defined
            /\ resp.body.errors.value # <<>>
    THEN Join(resp.body.errors.value)
    ELSE "HTTP " \o ToString(resp.status)

\* The same order with an empty detail or an empty joined text passed over.
NonEmptyDetailElseErrorsElseStatus(resp) ==
    IF /\ IsJsonObject(resp)
       /\ resp.body.detail.defined
       /\ resp.body.detail.value # ""
    THEN resp.body.detail.value
    ELSE IF /\ IsJsonObject(resp)
            /\ resp.body.errors.defined
            /\ Join(resp.body.errors.value) # ""
    THEN Join(resp.body.errors.value)
    ELSE "HTTP " \o ToString(resp.status)

\* C7 as stated: a failed request shows "Request failed: " and, for a
\* non-ok status, the body's detail if present, else its errors joined by
\* newlines if present and non-empty, else "HTTP <status>"; for a network
\* exception the exception's message. No result is rendered.
C7_FailureMessageOrder ==
    [][\A i \in 1..MaxInFlight, resp \in GenResponses :
          /\ resp.kind = "reject" =>
               Gives(GenerateSettled(i, resp), FailureShown(resp.message))
          /\ IsHttpError(resp) =>
               Gives(GenerateSettled(i, resp),
                     FailureShown(DetailElseErrorsElseStatus(resp)))]_vars

\* C7 amended: as C7, with a detail or a joined errors text that is the
\* empty string passed over like an absent one.
C7_FailureMessageOrderNonEmpty ==
    [][\A i \in 1..MaxInFlight, resp \in GenResponses :
          /\ resp.kind = "reject" =>
               Gives(GenerateSettled(i, resp), FailureShown(resp.message))
          /\ IsHttpError(resp) =>
               Gives(GenerateSettled(i, resp),
                     FailureShown(NonEmptyDetailElseErrorsElseStatus(resp)))]_vars

\* C7 witness: the banner of a non-ok response whose message came from the
\* body's errors list.
C7_Witness ==
    /\ ~errorHidden
    /\ resultsHidden
    /\ errorText = "Request failed: A\nB"

\* C8: a completed health poll leaves the indicator connected exactly when
\* the health request returned an ok status, and offline for a non-ok
\* status or a rejected fetch; after any completed poll the indicator is
\* one of the two.
C8_IndicatorMatchesPoll ==
    [][/\ \A resp \in HealthResponses :
            HealthSettled(resp) =>
              IF IsHttpOk(resp)
              THEN /\ healthLabel' = "API Connected"
                   /\ healthDot' = "health-dot healthy"
              ELSE /\ healthLabel' = "API Offline"
                   /\ healthDot' = "health-dot unhealthy"
       /\ healthPending' < healthPending =>
            <<healthLabel', healthDot'>> \in
               { <<"API Connected", "health-dot healthy">>,
                 <<"API Offline", "health-dot unhealthy">> }]_vars

\* C8 witness: a poll has completed and the indicator shows offline.
C8_Witness ==
    /\ healthPending = 0
    /\ healthLabel = "API Offline"
    /\ healthDot = "health-dot unhealthy"

FileStep ==
    \/ \E files \in OneDrop : PoFiles(files) \/ TsFiles(files) \/ TplFiles(files)
    \/ \E k \in 1..MaxTs + 1 : PoRemove(k) \/ TsRemove(k) \/ TplRemove(k)

\* C9: a generate click and the handling of any outcome leave the PO file,
\* the timesheet list and the template file as they were; only the add,
\* replace and remove handlers change them.
C9_GenerationKeepsSelection ==
    [][/\ \A text \in ConfigTexts, strict \in BOOLEAN :
            Gives(GenerateClick(text, strict), UNCHANGED selection)
       /\ \A i \in 1..MaxInFlight, resp \in CoreResponses :
            Gives(GenerateSettled(i, resp), UNCHANGED selection)
       /\ selection' # selection => FileStep]_vars

\* C9 witness: a successful generation has been rendered, nothing is
\* pending and the selection is still complete.
C9_Witness ==
    /\ inflight = <<>>
    /\ ~resultsHidden
    /\ lastResult.kind = "object"
    /\ Ready

SettledStep ==
    \E i \in 1..MaxInFlight, resp \in GenResponses : GenerateSettled(i, resp)

\* C10 as stated: lastResult is replaced by the response on a successful
\* response (success flag true) and left as it was by every other event,
\* a logically failed response and a transport failure included.
C10_StoredOnlyOnSuccess ==
    [][/\ \A i \in 1..MaxInFlight, resp \in GenResponses :
            Gives(GenerateSettled(i, resp),
                  lastResult' = (IF /\ IsHttpOk(resp)
                                    /\ IsJsonObject(resp)
                                    /\ resp.body.success = Def(TRUE)
                                 THEN resp.body ELSE lastResult))
       /\ lastResult' # lastResult => SettledStep]_vars

\* C10 amended: lastResult is replaced by the parsed body of every response
\* with an ok status and a JSON body, whatever its success flag, and left
\* as it was by every other event.
C10_StoredOnEveryParsedResponse ==
    [][/\ \A i \in 1..MaxInFlight, resp \in GenResponses :
            Gives(GenerateSettled(i, resp),
                  lastResult' = (IF IsHttpOk(resp) /\ resp.body.kind # "notjson"
                                 THEN resp.body ELSE lastResult))
       /\ lastResult' # lastResult => SettledStep]_vars

\* C10 witness: the stored result is a logically failed response, kept
\* while a later request is pending.
C10_Witness ==
    /\ lastResult.kind = "object"
    /\ lastResult.success = Def(FALSE)
    /\ Len(inflight) = 1

\* ------------------------------------------------------------------ C11
\* US currency with exactly two fraction digits: the amount rounded to
\* hundredths, the integer part grouped in threes.
UsCurrency(amount) ==
    LET rounded == (amount.frac + 50) \div 100
    IN "$" \o Grouped(amount.whole + rounded \div 100)
           \o "." \o Digits(rounded % 100, 2)

\* C11: when a successful response is handled, the grand total reads as US
\* currency: "$", the integer part grouped in threes, a decimal point and
\* exactly two fraction digits, the amount being rounded to two places.
C11_GrandTotalTwoFractionDigits ==
    [][\A i \in 1..MaxInFlight, resp \in TotalResponses :
         Gives(GenerateSettled(i, resp),
               grandTotal' = UsCurrency(resp.body.summary.value.grand_total_usd))]_vars

\* ------------------------------------------------------------------ C12
\* The idle view: busy indicator hidden, submit control enabled exactly
\* when the selection is ready.
IdleView == statusHidden /\ (~btnDisabled <=> Ready)

\* A success response that showResults cannot render.
IsRenderThrow(resp) ==
    /\ IsHttpOk(resp) /\ IsJsonObject(resp)
    /\ resp.body.success = Def(TRUE)
    /\ ShowResults(resp.body).threw

\* The three outcomes as the view shows them.
SuccessShown == ~resultsHidden /\ errorHidden
TransportErrorShown(m) ==
    resultsHidden /\ ~errorHidden /\ errorText = "Request failed: " \o m
LogicalErrorShown(resp) ==
    resultsHidden /\ ~errorHidden /\ errorText = NonEmptyJoinedOrUnknown(resp)

\* C12: handling the settled fetch of any request leaves exactly one
\* outcome on the view (success, logical error, transport error; a success
\* response that fails to render counts as a transport error) and the view
\* idle: busy indicator hidden, submit control enabled iff the selection is
\* ready, so that a ready selection can be submitted again after every
\* outcome; and whenever the busy indicator is visible and the pending
\* fetches complete or fail, the view eventually returns to idle.
C12_LifeCycleReturnsToIdle ==
    /\ [][\A i \in 1..MaxInFlight, resp \in LifeResponses :
            Gives(GenerateSettled(i, resp),
                  /\ IdleView'
                  /\ IF IsRenderThrow(resp)
                     THEN TransportErrorShown(ShowResults(resp.body).message)'
                     ELSE IF resp.kind = "reject"
                     THEN TransportErrorShown(resp.message)'
                     ELSE IF IsHttpError(resp)
                     THEN TransportErrorShown("HTTP " \o ToString(resp.status))'
                     ELSE IF IsLogicalFailure(resp)
                     THEN LogicalErrorShown(resp)'
                     ELSE SuccessShown')]_vars
    /\ (~statusHidden ~> IdleView)

\* A success response failed to render, was reported as a transport error,
\* and the view is idle with the submit control enabled again.
C12_Witness ==
    /\ TransportErrorShown(
         "Cannot read properties of undefined (reading 'grand_total_usd')")
    /\ IdleView /\ Ready /\ inflight = <<>>
    /\ lastResult.kind = "object"

\* ------------------------------------------------------------------ C13
\* C13: files added to the PO or template slot set the slot to the first
\* file of a non-empty list, whatever it held, and leave it as it was for an
\* empty list; files added to the timesheet slot are appended, all of them
\* and in their order, after the existing entries, which stay as they were;
\* each add leaves the other two slots unchanged.
C13_AddReplacesOrAppends ==
    [][\A files \in FileLists :
         /\ Gives(PoFiles(files),
                  /\ poPdf' = (IF Len(files) > 0 THEN files[1] ELSE poPdf)
                  /\ UNCHANGED <<timesheetFiles, templateFile>>)
         /\ Gives(TplFiles(files),
                  /\ templateFile' =
                       (IF Len(files) > 0 THEN files[1] ELSE templateFile)
                  /\ UNCHANGED <<poPdf, timesheetFiles>>)
         /\ Gives(TsFiles(files),
                  /\ timesheetFiles' = timesheetFiles \o files
                  /\ UNCHANGED <<poPdf, templateFile>>)]_vars

\* The PO and the template were replaced by the first file of a later add
\* and the same timesheet file was added twice.
C13_Witness ==
    /\ poPdf = "b.pdf" /\ poFileList = RenderFileList(<<"b.pdf">>)
    /\ templateFile = "b.pdf"
    /\ timesheetFiles = <<"a.pdf", "a.pdf">>
    /\ tsFileList = RenderFileList(timesheetFiles)

\* ------------------------------------------------------------------ C14
\* C14: the busy indicator is visible exactly in the states where a
\* generation request is in flight.
C14_BusyExactlyWhileInFlight ==
    ~statusHidden <=> inflight # <<>>

\* ------------------------------------------------------------------ C15
\* Everything on the page but the health indicator and its pending polls.
notHealth ==
    <<selection, lastResult, fileLists, btnDisabled, surface, inflight>>

\* C15: starting a health poll and completing one, with a generation
\* request or another health poll pending or not, leave the selection, the
\* stored result, the submit control, the busy indicator, the results
\* section and the error banner unchanged; a generate click and the
\* handling of a generation outcome leave the health indicator unchanged.
C15_HealthAndGenerationIndependent ==
    [][/\ Gives(HealthPoll,
                UNCHANGED <<notHealth, healthLabel, healthDot>>)
       /\ \A resp \in HealthResponses :
            Gives(HealthSettled(resp), UNCHANGED notHealth)
       /\ \A text \in ConfigTexts, strict \in BOOLEAN :
            Gives(GenerateClick(text, strict), UNCHANGED health)
       /\ \A i \in 1..MaxInFlight, resp \in CoreResponses :
            Gives(GenerateSettled(i, resp), UNCHANGED health)]_vars

\* Two health polls overlap while a generation request is pending, after a
\* completed poll found the backend offline and a generation result was
\* stored.
C15_Witness ==
    /\ healthPending = 2
    /\ healthLabel = "API Offline"
    /\ Len(inflight) = 1
    /\ ~statusHidden
    /\ lastResult # NullResult

\* ------------------------------------------------------------------ C16
\* C16: the results section and the error banner are never both visible;
\* a click that dispatches a request hides both, a click that finds the
\* configuration invalid shows the banner only, and the handling of every
\* outcome leaves exactly one of the two visible, also for a success
\* response whose rendering throws.
C16_ResultsAndErrorExclusive ==
    /\ [](resultsHidden \/ errorHidden)
    /\ [][/\ \A text \in ConfigTexts, strict \in BOOLEAN :
               Gives(GenerateClick(text, strict),
                     /\ resultsHidden'
                     /\ errorHidden' = JSONParse(text).ok)
          /\ \A i \in 1..MaxInFlight, resp \in LifeResponses :
               Gives(GenerateSettled(i, resp),
                     /\ resultsHidden' # errorHidden'
                     /\ IsRenderThrow(resp) => resultsHidden')]_vars

\* A success response threw while rendering after the grand total was
\* written: the banner is shown and the results section is hidden.
C16_Witness ==
    /\ ~errorHidden /\ resultsHidden
    /\ errorText =
         "Request failed: Cannot read properties of undefined (reading 'toFixed')"
    /\ grandTotal = "$1.00"

\* ------------------------------------------------------------------ C17
\* C17: the response to a request is never handled after the response to a
\* request submitted later, so that the outcome shown and the result stored
\* once nothing is pending are those of the last submitted request.
C17_NoStaleOutcome ==
    [][\A i \in 1..Len(inflight), resp \in CoreResponses :
         Gives(GenerateSettled(i, resp), ~inflight[i].overtaken)]_vars
====
